---------------------------- MODULE Spec2Model ----------------------------
(***************************************************************************)
(* sUSDe term-structure monitor: the daily snapshot job (api/snapshot.js), *)
(* the history read endpoint (api/history) and the dashboard computation   *)
(* (src/App.js), with the Supabase table term_spread_history they share.   *)
(*                                                                         *)
(* Numbers.  A JavaScript number n is modelled by the integer n * One,     *)
(* One = 10^7, so that a fractional rate such as 0.04 is 400000, the       *)
(* percentage 4 is 40000000 and toFixed(4) rounds to a multiple of 10^3.   *)
(* Time.  An instant is an integer tick, TicksPerDay ticks to the UTC day. *)
(***************************************************************************)
EXTENDS Integers, Sequences, FiniteSets, TLC

\* ------------------------------------------------------------------ bounds
TicksPerDay == 2
MaxClock == 3
MaxLen == 2
MaxLen2 == 1
MaxRuns == 1
MaxRunsRerun == 2
MaxLenDash == 2
MaxRefreshes == 2
SmallRows == 3
ExtraRows == 2
MaxRunsConc == 2
MaxRefreshesOver == 2

\* ----------------------------------------------------------------- numbers
One == 10 ^ 7
Hundred == 100 * One
Ulp4 == One \div (10 ^ 4)
Ulp2 == One \div (10 ^ 2)

Abs(x) == IF x < 0 THEN 0 - x ELSE x

\* JavaScript a * b on modelled numbers (the whole and the fractional part of
\* b taken apart, which keeps the intermediate products small)
Mul(a, b) == a * (b \div One) + (a * (b % One)) \div One

\* Number.prototype.toFixed(4) followed by parseFloat: the nearest multiple of
\* 10^-4, the larger magnitude when two are equally near.
ToFixed4(x) ==
  LET q == Abs(x) \div Ulp4
      r == Abs(x) % Ulp4
      n == IF 2 * r >= Ulp4 THEN q + 1 ELSE q
  IN  IF x < 0 THEN 0 - (n * Ulp4) ELSE n * Ulp4

\* toFixed(2) followed by parseFloat
ToFixed2(x) ==
  LET q == Abs(x) \div Ulp2
      r == Abs(x) % Ulp2
      n == IF 2 * r >= Ulp2 THEN q + 1 ELSE q
  IN  IF x < 0 THEN 0 - (n * Ulp2) ELSE n * Ulp2

\* Math.ceil(a / b) for b > 0
CeilDiv(a, b) == IF a % b = 0 THEN a \div b ELSE (a \div b) + 1

Min(a, b) == IF a < b THEN a ELSE b

\* ------------------------------------------------------------------ values
\* An optional JSON field: <<>> when absent (undefined), <<v>> when present.
None == <<>>
Some(v) == <<v>>
IsSome(o) == o # <<>>

\* JavaScript truthiness of an optional number
TruthyNum(o) == IsSome(o) /\ o[1] # 0

\* a || b || 0 over optional numbers
OrNum2(a, b) == IF TruthyNum(a) THEN a[1] ELSE IF TruthyNum(b) THEN b[1] ELSE 0
OrNum3(a, b, c) ==
  IF TruthyNum(a) THEN a[1]
  ELSE IF TruthyNum(b) THEN b[1]
  ELSE IF TruthyNum(c) THEN c[1] ELSE 0

\* ----------------------------------------------------------------- strings
\* A string is the sequence of its characters.
LowerChar(ch) ==
  CASE ch = "S" -> "s"
    [] ch = "U" -> "u"
    [] ch = "D" -> "d"
    [] ch = "E" -> "e"
    [] ch = "P" -> "p"
    [] ch = "T" -> "t"
    [] ch = "C" -> "c"
    [] OTHER -> ch

ToLowerCase(s) == [i \in 1..Len(s) |-> LowerChar(s[i])]

Includes(s, sub) ==
  \E i \in 0..(Len(s) - Len(sub)) : SubSeq(s, i + 1, i + Len(sub)) = sub

\* (x || '') for an optional string
OrEmpty(o) == IF IsSome(o) /\ o[1] # <<>> THEN o[1] ELSE <<>>

susde == <<"s", "u", "s", "d", "e">>
usde == <<"u", "s", "d", "e">>
ethena == <<"e", "t", "h", "e", "n", "a">>

\* -------------------------------------------------------------------- time
\* The ISO day (YYYY-MM-DD, UTC) of an instant, as a day number.
DayOf(t) == t \div TicksPerDay

\* market.expiry as the upstream sends it
ExpAbsent == [kind |-> "absent", t |-> 0]
ExpIso(t) == [kind |-> "iso", t |-> t]
ExpBad == [kind |-> "bad", t |-> 0]
ExpNum(t) == [kind |-> "num", t |-> t]

\* m.expiry as a condition: undefined, null and '' are falsy, 0 is falsy
ExpiryTruthy(e) ==
  \/ e.kind \in {"iso", "bad"}
  \/ e.kind = "num" /\ e.t # 0

\* new Date(expiry): the instant, or NaN (Invalid Date)
DateIsNaN(e) == e.kind \in {"bad", "absent"}
DateOf(e) == e.t


\* ------------------------------------------------------- upstream markets
\* The market records the upstream API may serve.  Rates are fractions.
Str_sUSDe == <<"s", "U", "S", "D", "e">>
Str_SUSDE == <<"S", "U", "S", "D", "E">>
Str_PT_sUSDe == <<"P", "T", "-", "s", "U", "S", "D", "e">>
Str_USDC == <<"U", "S", "D", "C">>
Str_USDe == <<"U", "S", "D", "e">>

Market(name, proName, symbol, expiry, dImp, tImp, dUnd, tUnd, dAgg) ==
  [name |-> name, proName |-> proName, symbol |-> symbol, expiry |-> expiry,
   dImpliedApy |-> dImp, impliedApy |-> tImp,
   dUnderlyingApy |-> dUnd, underlyingApy |-> tUnd, dAggregatedApy |-> dAgg]

Pool ==
  << \* 1: expiry T5, implied 0.04 under details
     Market(Some(Str_sUSDe), None, Some(Str_sUSDe), ExpIso(5),
            Some(400000), None, Some(700000), None, None),
     \* 2: expiry T8, implied 0.01 under details
     Market(Some(Str_sUSDe), None, Some(Str_sUSDe), ExpIso(8),
            Some(100000), None, Some(600000), None, None),
     \* 3: upper-case name, expiry T6, rates at the top level only
     Market(Some(Str_SUSDE), None, None, ExpIso(6),
            None, Some(500004), None, Some(650000), None),
     \* 4: expires at T1, in the middle of day 0
     Market(Some(Str_sUSDe), None, Some(Str_sUSDe), ExpIso(1),
            Some(299996), None, None, None, Some(550000)),
     \* 5: an expiry string that does not parse
     Market(Some(Str_sUSDe), None, Some(Str_sUSDe), ExpBad,
            Some(900000), None, Some(900000), None, None),
     \* 6: a name that contains the symbol without being equal to it
     Market(Some(Str_PT_sUSDe), None, Some(Str_sUSDe), ExpIso(4),
            Some(300000), None, Some(500000), None, None),
     \* 7: details.impliedApy is 0 while the top-level field is not
     Market(Some(Str_sUSDe), None, Some(Str_sUSDe), ExpIso(7),
            Some(0), Some(200000), Some(0), Some(400000), None),
     \* 8: a numeric expiry (epoch instant T6)
     Market(Some(Str_sUSDe), None, Some(Str_sUSDe), ExpNum(6),
            Some(800000), None, Some(800000), None, None),
     \* 9: same expiry as market 1, another rate
     Market(Some(Str_sUSDe), None, Some(Str_sUSDe), ExpIso(5),
            Some(600000), None, Some(100000), None, None),
     \* 10: no name, only proName; no expiry; another asset
     Market(None, Some(Str_USDC), Some(Str_USDC), ExpAbsent,
            Some(300000), None, None, None, None),
     \* 11: expiry T6, no implied rate anywhere
     Market(Some(Str_sUSDe), None, Some(Str_sUSDe), ExpIso(6),
            None, None, Some(500000), None, None),
     \* 12: the unstaked asset, expiry T5
     Market(Some(Str_USDe), None, Some(Str_USDe), ExpIso(5),
            Some(500000), None, Some(300000), None, None) >>

PoolIds == 1..Len(Pool)

\* Sequences over S of length at most n
SeqUpTo(S, n) == UNION {[1..k -> S] : k \in 0..n}


\* ------------------------------------------------------------ snapshot job
Chains == <<1, 9745>>
ChainIx == 1..Len(Chains)

\* What one chain's request can come back with: the fetch rejects, the body
\* is not JSON (or is null), or a JSON value whose "markets" and "results"
\* members are absent (or falsy), an array, or some other truthy value.
Member(tag, list) == [tag |-> tag, list |-> list]
NoMember == Member("absent", <<>>)
ObjMember == Member("object", <<>>)
ArrMember(list) == Member("array", list)

Body(kind, markets, results) == [kind |-> kind, markets |-> markets, results |-> results]

\* data.markets || []
MarketsOrEmpty(mem) == IF mem.tag = "absent" THEN ArrMember(<<>>) ELSE mem

\* One element of the Promise.all array without the catch of line 31: a
\* failed chain leaves no market list
ChainResponseNoCatch(c, body) ==
  IF body.kind = "json"
    THEN [chainId |-> Chains[c], markets |-> MarketsOrEmpty(body.markets), error |-> FALSE]
    ELSE [chainId |-> Chains[c], markets |-> NoMember, error |-> TRUE]

\* One element of the Promise.all array (lines 24-31)
ChainResponse(c, body) ==
  IF body.kind = "json"
    THEN [chainId |-> Chains[c], markets |-> MarketsOrEmpty(body.markets), error |-> FALSE]
    ELSE [chainId |-> Chains[c], markets |-> ArrMember(<<>>), error |-> TRUE]

Pending == [chainId |-> 0, markets |-> NoMember, error |-> FALSE]

\* a join that goes on as soon as one promise has settled (Promise.any)
AnySettled(resp) == \E c \in ChainIx : resp[c] # Pending

\* await Promise.all(...) (line 22): every promise has settled
AllSettled(resp) == \A c \in ChainIx : resp[c] # Pending

\* responses.flatMap(r => r.markets.map(...)): throws when some r.markets has
\* no map method
FlatMapThrows(resp) == \E c \in ChainIx : resp[c].markets.tag # "array"

RECURSIVE Concat(_, _)
Concat(seqs, n) == IF n = 0 THEN <<>> ELSE Concat(seqs, n - 1) \o seqs[n]

Tagged(resp, c) ==
  [i \in 1..Len(resp[c].markets.list) |->
     [chainId |-> resp[c].chainId, m |-> resp[c].markets.list[i]]]

AllMarkets(resp) == Concat([c \in ChainIx |-> Tagged(resp, c)], Len(Chains))

\* lines 41-44
IsSusde(it) == ToLowerCase(OrEmpty(Pool[it.m].name)) = susde
SusdeMarkets(all) == SelectSeq(all, IsSusde)

\* (a, b) => new Date(a.expiry) - new Date(b.expiry), NaN read as +0 by sort
Compare(a, b) ==
  IF DateIsNaN(Pool[a.m].expiry) \/ DateIsNaN(Pool[b.m].expiry)
    THEN 0
    ELSE DateOf(Pool[a.m].expiry) - DateOf(Pool[b.m].expiry)

\* Array.prototype.sort as the engine runs it on a short array: the leading
\* run is counted (and reversed when strictly descending), the remaining
\* elements are placed by binary insertion.
RECURSIVE RunLength(_, _, _)
RunLength(a, idx, desc) ==
  IF idx > Len(a) THEN idx - 1
  ELSE LET order == Compare(a[idx], a[idx - 1])
       IN  IF (desc /\ order >= 0) \/ (~desc /\ order < 0)
             THEN idx - 1
             ELSE RunLength(a, idx + 1, desc)

Reverse(a) == [i \in 1..Len(a) |-> a[Len(a) + 1 - i]]

RECURSIVE InsertPoint(_, _, _, _)
InsertPoint(a, pivot, left, right) ==
  IF left >= right THEN left
  ELSE LET mid == left + ((right - left) \div 2)
       IN  IF Compare(pivot, a[mid + 1]) < 0
             THEN InsertPoint(a, pivot, left, mid)
             ELSE InsertPoint(a, pivot, mid + 1, right)

RECURSIVE BinaryInsertionSort(_, _)
BinaryInsertionSort(a, start) ==
  IF start > Len(a) THEN a
  ELSE LET pivot == a[start]
           at == InsertPoint(a, pivot, 0, start - 1)
           moved == SubSeq(a, 1, at) \o <<pivot>> \o SubSeq(a, at + 1, start - 1)
                      \o SubSeq(a, start + 1, Len(a))
       IN  BinaryInsertionSort(moved, start + 1)

SortByExpiry(a) ==
  IF Len(a) < 2 THEN a
  ELSE LET desc == Compare(a[2], a[1]) < 0
           run == RunLength(a, 3, desc)
           head == IF desc THEN Reverse(SubSeq(a, 1, run)) ELSE SubSeq(a, 1, run)
       IN  BinaryInsertionSort(head \o SubSeq(a, run + 1, Len(a)), run + 1)

HasExpiry(it) == ExpiryTruthy(Pool[it.m].expiry)

\* Math.ceil((new Date(m.expiry) - new Date()) / (1000*60*60*24)) > 0
DaysTo(e, now) == CeilDiv(DateOf(e) - now, TicksPerDay)
\* an expiry filter that keeps every parseable expiry, passed or not
NeverExpired(e, now) == ~DateIsNaN(e)

NotExpired(e, now) == ~DateIsNaN(e) /\ DaysTo(e, now) > 0

\* The second filter of lines 57-60; nows[i] is the clock its i-th call reads.
RECURSIVE FilterDays(_, _, _)
FilterDays(a, nows, i) ==
  IF i > Len(a) THEN <<>>
  ELSE (IF NotExpired(Pool[a[i].m].expiry, nows[i]) THEN <<a[i]>> ELSE <<>>)
         \o FilterDays(a, nows, i + 1)

\* lines 54-60
Sorted(susdeMarkets, nows) ==
  FilterDays(SortByExpiry(SelectSeq(susdeMarkets, HasExpiry)), nows, 1)

\* lines 73-76
ImpliedApy(m) == OrNum2(Pool[m].dImpliedApy, Pool[m].impliedApy)
UnderlyingApy(m) == OrNum2(Pool[m].dUnderlyingApy, Pool[m].underlyingApy)
FrontApy(sorted) == Mul(ImpliedApy(sorted[1].m), Hundred)
BackApy(sorted) == Mul(ImpliedApy(sorted[Len(sorted)].m), Hundred)
TermSpread(sorted) == BackApy(sorted) - FrontApy(sorted)

\* expiry.split('T')[0]: defined on strings only
SplitThrows(e) == e.kind = "num"
SplitDay(e) == DayOf(e.t)

\* new Date().toISOString().split('T')[0]
Today(now) == DayOf(now)

\* lines 80-89
Record(sorted, now) ==
  [date |-> Today(now),
   term_spread |-> ToFixed4(TermSpread(sorted)),
   front_month_apy |-> ToFixed4(FrontApy(sorted)),
   back_month_apy |-> ToFixed4(BackApy(sorted)),
   front_expiry |-> SplitDay(Pool[sorted[1].m].expiry),
   back_expiry |-> SplitDay(Pool[sorted[Len(sorted)].m].expiry),
   underlying_apy |-> ToFixed4(Mul(UnderlyingApy(sorted[1].m), Hundred)),
   markets_count |-> Len(sorted)]

RecordThrows(sorted) ==
  \/ SplitThrows(Pool[sorted[1].m].expiry)
  \/ SplitThrows(Pool[sorted[Len(sorted)].m].expiry)

NoRecord ==
  [date |-> 0 - 99, term_spread |-> 0, front_month_apy |-> 0, back_month_apy |-> 0,
   front_expiry |-> 0, back_expiry |-> 0, underlying_apy |-> 0, markets_count |-> 0]

\* --------------------------------------------------------------- the table
\* term_spread_history: rows in the storage layer's own order.  A POST with
\* Prefer: resolution=merge-duplicates replaces the row that has the same key
\* (date) and inserts the row when there is none.
HasDate(tbl, d) == \E i \in 1..Len(tbl) : tbl[i].date = d

\* Upsert without the conflict resolution: every row is inserted
UpsertInserts(tbl, rec) == Append(tbl, rec)

\* Upsert with resolution=ignore-duplicates: the first row of a date stays
UpsertIgnores(tbl, rec) == IF HasDate(tbl, rec.date) THEN tbl ELSE Append(tbl, rec)

\* Conflict resolution that is not atomic on the row: the columns of the new
\* row land one by one, and a row of the same date written in between keeps
\* its rates
UpsertByColumn(tbl, rec) ==
  IF HasDate(tbl, rec.date)
    THEN [i \in 1..Len(tbl) |->
            IF tbl[i].date = rec.date
              THEN [rec EXCEPT !.front_month_apy = tbl[i].front_month_apy,
                               !.back_month_apy = tbl[i].back_month_apy]
              ELSE tbl[i]]
    ELSE Append(tbl, rec)

Upsert(tbl, rec) ==
  IF HasDate(tbl, rec.date)
    THEN [i \in 1..Len(tbl) |-> IF tbl[i].date = rec.date THEN rec ELSE tbl[i]]
    ELSE Append(tbl, rec)


\* ------------------------------------------------------------ history read
DefaultDays == 90
MaxDays == 365

\* Characters parseInt reads as digits, by value
DecDigits == <<"0", "1", "2", "3", "4", "5", "6", "7", "8", "9">>
HexLower == DecDigits \o <<"a", "b", "c", "d", "e", "f">>
HexUpper == DecDigits \o <<"A", "B", "C", "D", "E", "F">>

IsDigit(ch, radix) ==
  \E v \in 1..radix : HexLower[v] = ch \/ HexUpper[v] = ch
DigitValue(ch) ==
  (CHOOSE v \in 1..16 : HexLower[v] = ch \/ HexUpper[v] = ch) - 1

RECURSIVE SkipSpaces(_)
SkipSpaces(s) == IF s # <<>> /\ Head(s) = " " THEN SkipSpaces(Tail(s)) ELSE s

\* The value of the longest prefix of s made of digits of the radix,
\* continuing from acc; seen tells whether a digit has been read.
RECURSIVE ReadDigits(_, _, _, _)
ReadDigits(s, radix, acc, seen) ==
  IF s # <<>> /\ IsDigit(Head(s), radix)
    THEN ReadDigits(Tail(s), radix, acc * radix + DigitValue(Head(s)), TRUE)
    ELSE [nan |-> ~seen, val |-> acc]

\* parseInt(q) for a query parameter q: absent (undefined) or a string
ParseInt(q) ==
  IF ~IsSome(q) THEN [nan |-> TRUE, val |-> 0]
  ELSE LET s0 == SkipSpaces(q[1])
           neg == s0 # <<>> /\ Head(s0) = "-"
           s1 == IF s0 # <<>> /\ Head(s0) \in {"-", "+"} THEN Tail(s0) ELSE s0
           hex == Len(s1) >= 2 /\ s1[1] = "0" /\ s1[2] \in {"x", "X"}
           num == IF hex THEN ReadDigits(Tail(Tail(s1)), 16, 0, FALSE)
                         ELSE ReadDigits(s1, 10, 0, FALSE)
       IN  [nan |-> num.nan, val |-> IF neg THEN 0 - num.val ELSE num.val]

\* a handler whose default is the largest window instead of 90
DaysDefaultMax(q) ==
  LET n == ParseInt(q) IN IF n.nan \/ n.val = 0 THEN MaxDays ELSE n.val

\* parseInt(req.query.days) || 90  (line 13)
Days(q) ==
  LET n == ParseInt(q) IN IF n.nan \/ n.val = 0 THEN DefaultDays ELSE n.val

\* the day count passed on as it is
LimitedDaysUnclamped(q) == Days(q)

\* Math.min(days, 365)  (line 14)
LimitedDays(q) == Min(Days(q), MaxDays)

\* select=*&order=date.desc: the rows, latest date first
LaterDate(a, b) == a.date > b.date
OrderDateDesc(tbl) == SortSeq(tbl, LaterDate)

\* &limit=n: the table refuses a negative limit
SelectRejects(limit) == limit < 0
Select(tbl, limit) == SubSeq(OrderDateDesc(tbl), 1, Min(limit, Len(tbl)))

\* the rows left in the order the table answered them
AsAnswered(data) == data

\* data.reverse()  (line 32)
Chronological(data) == [i \in 1..Len(data) |-> data[Len(data) + 1 - i]]

\* The series a successful read returns for the query parameter q
HistoryData(tbl, q) == Chronological(Select(tbl, LimitedDays(q)))

\* ---------------------------------------------------------------- dashboard
CHAIN_ID == 1

\* data.markets || data.results || []  (line 34); an array, even an empty
\* one, is truthy
DashAllMarkets(body) ==
  IF body.markets.tag # "absent" THEN body.markets
  ELSE IF body.results.tag # "absent" THEN body.results
  ELSE ArrMember(<<>>)

\* !Array.isArray(allMarkets) || allMarkets.length === 0  (line 36)
NoMarketsData(all) == all.tag # "array" \/ all.list = <<>>

DashItems(list) == [i \in 1..Len(list) |-> [chainId |-> CHAIN_ID, m |-> list[i]]]

\* market.name || market.proName || ''
DisplayName(m) ==
  IF OrEmpty(Pool[m].name) # <<>> THEN OrEmpty(Pool[m].name) ELSE OrEmpty(Pool[m].proName)

\* lines 41-45
MatchesSusde(it) ==
  \/ Includes(ToLowerCase(DisplayName(it.m)), susde)
  \/ Includes(ToLowerCase(OrEmpty(Pool[it.m].symbol)), susde)

\* lines 53-56
MatchesEthena(it) ==
  \/ Includes(ToLowerCase(OrEmpty(Pool[it.m].name)), usde)
  \/ Includes(ToLowerCase(OrEmpty(Pool[it.m].name)), ethena)

\* The list fetchPendleMarkets hands to processMarkets (lines 47-63), <<>>
\* when it calls it with nothing or not at all
DashProcessed(body) ==
  IF body.kind # "json" \/ NoMarketsData(DashAllMarkets(body)) THEN <<>>
  ELSE LET all == DashItems(DashAllMarkets(body).list)
       IN  IF SelectSeq(all, MatchesSusde) # <<>>
             THEN SelectSeq(all, MatchesSusde)
             ELSE SelectSeq(all, MatchesEthena)

\* lines 78-80
DashSorted(markets) == SortByExpiry(SelectSeq(markets, HasExpiry))

\* lines 86-106; days is absent when the expiry is an Invalid Date (NaN)
Point(it, now) ==
  [m |-> it.m,
   days |-> IF DateIsNaN(Pool[it.m].expiry) THEN None
            ELSE Some(DaysTo(Pool[it.m].expiry, now)),
   impliedYield |-> Mul(OrNum2(Pool[it.m].dImpliedApy, Pool[it.m].impliedApy), Hundred),
   underlyingYield |-> Mul(OrNum3(Pool[it.m].dUnderlyingApy, Pool[it.m].underlyingApy,
                                  Pool[it.m].dAggregatedApy), Hundred)]

Structure(sorted, nows) == [i \in 1..Len(sorted) |-> Point(sorted[i], nows[i])]

\* line 109
ValidPoint(s) == IsSome(s.days) /\ s.days[1] > 0 /\ s.impliedYield > 0
ValidStructure(structure) == SelectSeq(structure, ValidPoint)

\* The hooks processMarkets and generateHistoricalSpread set
Hooks(ts, sp, uy, err, lu, hs) ==
  [termStructure |-> ts, termSpread |-> sp, underlyingYield |-> uy, error |-> err,
   lastUpdate |-> lu, historicalSpread |-> hs]

NoError == "null"

\* currentSpread || -3  (line 150): the level the simulated series is drawn around
BaseSpread(currentSpread) == IF currentSpread # 0 THEN currentSpread ELSE 0 - 3 * One

\* processMarkets (lines 76-135) on the hooks h
ProcessMarkets(h, markets, nows) ==
  LET sorted == DashSorted(markets)
      valid == ValidStructure(Structure(sorted, nows))
      n == Len(valid)
  IN  IF sorted = <<>> THEN h
      ELSE IF n = 0
        THEN [h EXCEPT !.error = "No valid markets with positive days to expiry"]
        ELSE [h EXCEPT
                !.termStructure = valid,
                !.termSpread = IF n >= 2
                                 THEN ToFixed2(valid[n].impliedYield - valid[1].impliedYield)
                                 ELSE 0,
                !.underlyingYield = IF valid[1].underlyingYield # 0
                                      THEN ToFixed2(valid[1].underlyingYield) ELSE @,
                !.historicalSpread =
                   Some(BaseSpread(IF n >= 2
                                     THEN valid[n].impliedYield - valid[1].impliedYield
                                     ELSE 0))]

\* fetchPendleMarkets from the response on (lines 27-69) on the hooks h;
\* last is the clock read by line 65
AfterFetch(h, body, nows, last) ==
  CASE body.kind = "neterr" -> [h EXCEPT !.error = "Failed to fetch"]
    [] body.kind = "httperr" -> [h EXCEPT !.error = "API Error"]
    [] body.kind = "badjson" -> [h EXCEPT !.error = "SyntaxError"]
    [] OTHER ->
         IF NoMarketsData(DashAllMarkets(body))
           THEN [h EXCEPT !.error = "No markets data received from API"]
           ELSE LET all == DashItems(DashAllMarkets(body).list)
                    h1 == IF SelectSeq(all, MatchesSusde) = <<>>
                            THEN [h EXCEPT !.error = "No sUSDe markets found"]
                            ELSE h
                IN  [ProcessMarkets(h1, DashProcessed(body), nows)
                       EXCEPT !.lastUpdate = Some(last)]

\* ------------------------------------------------------------------- state
VARIABLES
  clock,       \* the wall clock (new Date())
  table,       \* term_spread_history, rows in storage order
  pc,          \* pc[r]: where run r of the snapshot handler stands
  responses,   \* responses[r][c]: chain c's element of the Promise.all array
  sorted,      \* sorted[r]: the expiry-sorted, non-expired candidates
  filterNows,  \* filterNows[r]: first and last clock read by the expiry filter
  record,      \* record[r]: the row sent to the table
  result,      \* result[r]: the HTTP response of run r
  runs,        \* number of runs started so far
  puts,        \* history: the rows the table has taken, with the run's inputs
  histPc,      \* where the history handler stands
  histReq,     \* its request: method and the days query parameter
  histRes,     \* its HTTP response
  histOutcome, \* history: what its select came back with
  dashPc,      \* where fetchPendleMarkets stands
  termStructure, termSpread, underlyingYield, loading, error, lastUpdate,
  historicalSpread,  \* the dashboard's state hooks (App.js lines 9-15)
  dashResp,    \* history: the body the last settled refresh received
  dashNows,    \* history: first and last clock read by that refresh
  refreshes,   \* number of refreshes started so far
  settled      \* the refreshes (by start order) whose fetch has settled

jobVars == <<pc, responses, sorted, filterNows, record, result, runs, puts>>
histVars == <<histPc, histReq, histRes, histOutcome>>
hooks == <<termStructure, termSpread, underlyingYield, error, lastUpdate, historicalSpread>>
dashVars == <<dashPc, hooks, loading, dashResp, dashNows, refreshes, settled>>
nonJob == <<histVars, dashVars>>
vars == <<clock, table, jobVars, histVars, dashVars>>

RunIds == {1, 2}

NoResult ==
  [status |-> 0, keys |-> {}, message |-> "", count |-> 0, error |-> "",
   date |-> 0, term_spread |-> 0, front_apy |-> 0, back_apy |-> 0, markets |-> 0]

\* lines 47-50
NotEnoughMarkets(n) ==
  [NoResult EXCEPT !.status = 200, !.keys = {"message", "marketsFound"},
                   !.message = "Not enough sUSDe markets to calculate spread",
                   !.count = n]
\* lines 63-66
NotEnoughValid(n) ==
  [NoResult EXCEPT !.status = 200, !.keys = {"message", "validMarkets"},
                   !.message = "Not enough valid sUSDe markets",
                   !.count = n]
\* a success envelope that reports the row's rates as fractions again
SuccessAsFractions(rec, n) ==
  [NoResult EXCEPT !.status = 200,
                   !.keys = {"success", "date", "term_spread", "front_apy", "back_apy", "markets"},
                   !.date = rec.date, !.term_spread = rec.term_spread \div 100,
                   !.front_apy = rec.front_month_apy \div 100,
                   !.back_apy = rec.back_month_apy \div 100,
                   !.markets = n]

\* lines 108-115
Success(rec, n) ==
  [NoResult EXCEPT !.status = 200,
                   !.keys = {"success", "date", "term_spread", "front_apy", "back_apy", "markets"},
                   !.date = rec.date, !.term_spread = rec.term_spread,
                   !.front_apy = rec.front_month_apy, !.back_apy = rec.back_month_apy,
                   !.markets = n]
\* lines 117-120
ServerError(msg) ==
  [NoResult EXCEPT !.status = 500, !.keys = {"error"}, !.error = msg]

InitRow(now) == Record(<<[chainId |-> 1, m |-> 1], [chainId |-> 1, m |-> 2]>>, now)

\* Tables left by earlier days' runs
InitTables == {<<>>, <<InitRow(0)>>, <<InitRow(0 - TicksPerDay), InitRow(0)>>}

JobInit ==
  /\ pc = [r \in RunIds |-> "idle"]
  /\ responses = [r \in RunIds |-> [c \in ChainIx |-> Pending]]
  /\ sorted = [r \in RunIds |-> <<>>]
  /\ filterNows = [r \in RunIds |-> <<0, 0>>]
  /\ record = [r \in RunIds |-> NoRecord]
  /\ result = [r \in RunIds |-> NoResult]
  /\ runs = 0
  /\ puts = <<>>

NoRequest == [method |-> "", days |-> None]
NoHistResult ==
  [status |-> 0, keys |-> {}, count |-> 0, data |-> <<>>, error |-> ""]

HistInit ==
  /\ histPc = "idle"
  /\ histReq = NoRequest
  /\ histRes = NoHistResult
  /\ histOutcome = "none"

\* ------------------------------------------------ dashboard: its actions
NoBody == Body("none", NoMember, NoMember)

DashInit ==
  /\ dashPc = "idle"
  /\ termStructure = <<>>
  /\ termSpread = 0
  /\ underlyingYield = 0
  /\ loading = TRUE
  /\ error = NoError
  /\ lastUpdate = None
  /\ historicalSpread = None
  /\ dashResp = NoBody
  /\ dashNows = <<0, 0>>
  /\ refreshes = 0
  /\ settled = {}

\* The refreshes whose fetch is in flight
InFlight == (1..refreshes) \ settled

\* fetchPendleMarkets is called and runs up to its await (lines 18-25).
FetchPendleMarkets(max) ==
  /\ refreshes < max
  /\ refreshes' = refreshes + 1
  /\ dashPc' = "fetching"
  /\ loading' = TRUE
  /\ error' = NoError
  /\ UNCHANGED <<clock, table, jobVars, histVars, termStructure, termSpread,
                 underlyingYield, lastUpdate, historicalSpread, dashResp, dashNows,
                 settled>>

\* The effect or the interval calls fetchPendleMarkets (lines 162-166) while
\* no refresh is in flight.
DashStart ==
  /\ dashPc = "idle"
  /\ FetchPendleMarkets(MaxRefreshes)

\* The fetch of refresh id settles and the rest of fetchPendleMarkets runs
\* (lines 27-72).
\* The structure reads the clock once per market: its first k reads see the
\* clock as it stands, the remaining ones and line 65 the next tick.
DashSettleOf(id, body, k) ==
  /\ id \in InFlight
  /\ \E n \in {Len(DashSorted(DashProcessed(body)))} :
       /\ k \in 1..n \/ (n = 0 /\ k = 0)
       /\ k < n => clock < MaxClock
       /\ LET last == IF k < n THEN clock + 1 ELSE clock
              nows == [i \in 1..n |-> IF i <= k THEN clock ELSE clock + 1]
          IN  /\ \E h \in {AfterFetch(Hooks(termStructure, termSpread, underlyingYield,
                                            error, lastUpdate, historicalSpread),
                                      body, nows, last)} :
                   /\ termStructure' = h.termStructure
                   /\ termSpread' = h.termSpread
                   /\ underlyingYield' = h.underlyingYield
                   /\ error' = h.error
                   /\ lastUpdate' = h.lastUpdate
                   /\ historicalSpread' = h.historicalSpread
              /\ clock' = last
              /\ dashNows' = <<clock, last>>
  /\ dashResp' = body
  /\ settled' = settled \cup {id}
  /\ dashPc' = IF InFlight = {id} THEN "idle" ELSE "fetching"
  /\ loading' = FALSE
  /\ UNCHANGED <<table, jobVars, histVars, refreshes>>

\* The fetch of the one refresh in flight settles.
DashSettle(body, k) ==
  /\ dashPc = "fetching"
  /\ \E i \in InFlight : DashSettleOf(i, body, k)

Init ==
  /\ clock = 0
  /\ table \in InitTables
  /\ JobInit
  /\ HistInit
  /\ DashInit

\* ----------------------------------------------------------------- actions
\* Time passes.
Tick ==
  /\ clock < MaxClock
  /\ clock' = clock + 1
  /\ UNCHANGED <<table, jobVars, nonJob>>

\* The handler is invoked (line 14) and issues one request per chain (22-24).
Start(r, maxRuns) ==
  /\ pc[r] \in {"idle", "done"}
  /\ runs < maxRuns
  /\ runs' = runs + 1
  /\ pc' = [pc EXCEPT ![r] = "fetching"]
  /\ responses' = [responses EXCEPT ![r] = [c \in ChainIx |-> Pending]]
  /\ sorted' = [sorted EXCEPT ![r] = <<>>]
  /\ filterNows' = [filterNows EXCEPT ![r] = <<0, 0>>]
  /\ record' = [record EXCEPT ![r] = NoRecord]
  /\ result' = [result EXCEPT ![r] = NoResult]
  /\ UNCHANGED <<clock, table, puts, nonJob>>

\* Chain c's promise settles (lines 24-31).
FetchSettle(r, c, body) ==
  /\ pc[r] = "fetching"
  /\ responses[r][c] = Pending
  /\ responses' = [responses EXCEPT ![r][c] = ChainResponse(c, body)]
  /\ UNCHANGED <<clock, table, pc, sorted, filterNows, record, result, runs, puts, nonJob>>

Finish(r, res) ==
  /\ pc' = [pc EXCEPT ![r] = "done"]
  /\ result' = [result EXCEPT ![r] = res]

\* Promise.all resolves; lines 36-67 run.  The expiry filter reads the clock
\* once per element: its first k calls read the clock as it stands and, when
\* k is less than the number of calls, the remaining ones read the next tick.
Compute(r, k) ==
  /\ pc[r] = "fetching"
  /\ AllSettled(responses[r])
  /\ IF FlatMapThrows(responses[r])
       THEN /\ Finish(r, ServerError("TypeError"))
            /\ UNCHANGED <<clock, sorted, filterNows>>
            /\ k = 0
       ELSE LET susdeMarkets == SusdeMarkets(AllMarkets(responses[r]))
                withExpiry == SelectSeq(susdeMarkets, HasExpiry)
                n == Len(withExpiry)
            IN  IF Len(susdeMarkets) < 2
                  THEN /\ Finish(r, NotEnoughMarkets(Len(susdeMarkets)))
                       /\ UNCHANGED <<clock, sorted, filterNows>>
                       /\ k = 0
                  ELSE /\ k \in 1..n \/ (n = 0 /\ k = 0)
                       /\ k < n => clock < MaxClock
                       /\ LET last == IF k < n THEN clock + 1 ELSE clock
                              nows == [i \in 1..n |-> IF i <= k THEN clock ELSE clock + 1]
                              srt == Sorted(susdeMarkets, nows)
                          IN  /\ clock' = last
                              /\ sorted' = [sorted EXCEPT ![r] = srt]
                              /\ filterNows' = [filterNows EXCEPT ![r] = <<clock, last>>]
                              /\ IF Len(srt) < 2
                                   THEN Finish(r, NotEnoughValid(Len(srt)))
                                   ELSE /\ pc' = [pc EXCEPT ![r] = "computed"]
                                        /\ UNCHANGED result
  /\ UNCHANGED <<table, responses, record, runs, puts, nonJob>>

\* Lines 70-101: the row is built, reading the clock for its date, and sent.
Prepare(r) ==
  /\ pc[r] = "computed"
  /\ IF RecordThrows(sorted[r])
       THEN /\ Finish(r, ServerError("TypeError"))
            /\ UNCHANGED record
       ELSE /\ record' = [record EXCEPT ![r] = Record(sorted[r], clock)]
            /\ pc' = [pc EXCEPT ![r] = "posting"]
            /\ UNCHANGED result
  /\ UNCHANGED <<clock, table, responses, sorted, filterNows, runs, puts, nonJob>>

\* The POST settles (lines 92-115): the table takes the row and answers 2xx
\* ("ok"), answers with an error status ("rejected"), the request never
\* arrives ("unsent"), or the row is taken and the answer is lost ("lost").
PostOutcomes == {"ok", "rejected", "unsent", "lost"}

\* a table that keeps the row whatever it answers
StoredAnyway(tbl, rec, outcome) == Upsert(tbl, rec)

\* The table after the POST of rec: the row is taken only when the request
\* arrived and was not rejected
Stored(tbl, rec, outcome) ==
  IF outcome \in {"ok", "lost"} THEN Upsert(tbl, rec) ELSE tbl

\* a handler that does not look at the status of the table's answer
AnswerUnchecked(outcome, rec, n) ==
  IF outcome \in {"ok", "rejected"} THEN Success(rec, n) ELSE ServerError("fetch failed")

\* Lines 103-120: what the handler answers once the POST has settled
Answer(outcome, rec, n) ==
  CASE outcome = "ok" -> Success(rec, n)
    [] outcome = "rejected" -> ServerError("Supabase error")
    [] OTHER -> ServerError("fetch failed")

PostSettle(r, outcome) ==
  /\ pc[r] = "posting"
  /\ table' = Stored(table, record[r], outcome)
  /\ puts' = IF outcome \in {"ok", "lost"}
               THEN Append(puts, [inputs |-> responses[r], sorted |-> sorted[r],
                                  record |-> record[r]])
               ELSE puts
  /\ Finish(r, Answer(outcome, record[r], Len(sorted[r])))
  /\ UNCHANGED <<clock, responses, sorted, filterNows, record, runs, nonJob>>

\* The same round trip in two steps, for runs that overlap: the request
\* reaches the table (lines 92-101) ...
PostArrive(r, outcome) ==
  /\ pc[r] = "posting"
  /\ table' = Stored(table, record[r], outcome)
  /\ puts' = IF outcome \in {"ok", "lost"}
               THEN Append(puts, [inputs |-> responses[r], sorted |-> sorted[r],
                                  record |-> record[r]])
               ELSE puts
  /\ pc' = [pc EXCEPT ![r] = outcome]
  /\ UNCHANGED <<clock, responses, sorted, filterNows, record, result, runs, nonJob>>

\* ... and the handler goes on with what came back (lines 103-120).
PostAnswer(r) ==
  /\ pc[r] \in PostOutcomes
  /\ Finish(r, Answer(pc[r], record[r], Len(sorted[r])))
  /\ UNCHANGED <<clock, table, responses, sorted, filterNows, record, runs, puts, nonJob>>

\* ------------------------------------------------- history read: actions
\* lines 34-38
HistSuccess(data) ==
  [NoHistResult EXCEPT !.status = 200, !.keys = {"success", "count", "data"},
                       !.count = Len(data), !.data = data]
\* a failure answered as a success without rows
HistErrorAsEmpty(msg) == HistSuccess(<<>>)

\* lines 40-43
HistError(msg) ==
  [NoHistResult EXCEPT !.status = 500, !.keys = {"error"}, !.error = msg]

\* The handler is invoked (lines 4-24): a preflight is answered at once,
\* anything else sends the select to the table.
HistStart(req) ==
  /\ histPc \in {"idle", "done"}
  /\ histReq' = req
  /\ histOutcome' = "none"
  /\ IF req.method = "OPTIONS"
       THEN /\ histPc' = "done"
            /\ histRes' = [NoHistResult EXCEPT !.status = 200]
       ELSE /\ histPc' = "fetching"
            /\ histRes' = NoHistResult
  /\ UNCHANGED <<clock, table, jobVars, dashVars>>

\* The select settles (lines 26-43): the table answers ("ok"), answers with
\* an error status ("rejected"), the request fails ("unsent") or the answer
\* is not JSON ("badjson").
HistOutcomes == {"ok", "rejected", "unsent", "badjson"}

\* The response to a read of table tbl with query parameter q
HistResponse(tbl, q, outcome) ==
  CASE outcome = "ok" /\ ~SelectRejects(LimitedDays(q))
         -> HistSuccess(HistoryData(tbl, q))
    [] outcome = "ok" /\ SelectRejects(LimitedDays(q))
         -> HistError("Supabase error")
    [] outcome = "rejected" -> HistError("Supabase error")
    [] outcome = "unsent" -> HistError("fetch failed")
    [] OTHER -> HistError("SyntaxError")

HistSettle(outcome) ==
  /\ histPc = "fetching"
  /\ histPc' = "done"
  /\ histRes' = HistResponse(table, histReq.days, outcome)
  /\ histOutcome' = outcome
  /\ UNCHANGED <<clock, table, jobVars, histReq, dashVars>>

\* ------------------------------------------------------------ input bounds
MaxLenOf(c) == IF c = 1 THEN MaxLen ELSE MaxLen2

Bodies(n) ==
  {Body("neterr", NoMember, NoMember), Body("badjson", NoMember, NoMember),
   Body("json", ObjMember, NoMember)}
    \cup {Body("json", ArrMember(l), NoMember) : l \in SeqUpTo(PoolIds, n)}
    \cup {Body("json", NoMember, ArrMember(l)) : l \in SeqUpTo(PoolIds, n)}

\* The inputs of the re-run specification: three well-formed markets, each
\* living on one chain
RerunIds == <<{1, 4}, {2}>>
BodiesRerun(c) ==
  {Body("neterr", NoMember, NoMember)}
    \cup {Body("json", ArrMember(l), NoMember) : l \in SeqUpTo(RerunIds[c], MaxLenOf(c))}

Next ==
  \/ Tick
  \/ \E r \in {1} :
       \/ Start(r, MaxRuns)
       \/ \E c \in ChainIx : \E body \in Bodies(MaxLenOf(c)) : FetchSettle(r, c, body)
       \/ \E k \in 0..(MaxLen + MaxLen2) : Compute(r, k)
       \/ Prepare(r)
       \/ \E outcome \in PostOutcomes : PostSettle(r, outcome)

Spec == Init /\ [][Next]_vars

\* The job run again and again, one run at a time
NextRerun ==
  \/ Tick
  \/ \E r \in {1} :
       \/ Start(r, MaxRunsRerun)
       \/ \E c \in ChainIx : \E body \in BodiesRerun(c) : FetchSettle(r, c, body)
       \/ \E k \in 0..(MaxLen + MaxLen2) : Compute(r, k)
       \/ Prepare(r)
       \/ \E outcome \in PostOutcomes : PostSettle(r, outcome)

InitRerun ==
  /\ clock = 0
  /\ table = <<>>
  /\ JobInit
  /\ HistInit
  /\ DashInit

SpecRerun == InitRerun /\ [][NextRerun]_vars

\* Two invocations of the job that may overlap (the cron trigger and a manual
\* call, or a retried trigger), each with its own fetches and its own POST
ConcIds == <<{1, 4}, {2}>>
BodiesConc(c) ==
  {Body("json", ArrMember(l), NoMember) : l \in SeqUpTo(ConcIds[c], MaxLenOf(c))}

NextConc ==
  \/ Tick
  \/ \E r \in RunIds :
       \/ (pc[r] = "idle" /\ Start(r, MaxRunsConc))
       \/ \E c \in ChainIx : \E body \in BodiesConc(c) : FetchSettle(r, c, body)
       \/ \E k \in 0..(MaxLen + MaxLen2) : Compute(r, k)
       \/ Prepare(r)
       \/ \E outcome \in PostOutcomes : PostArrive(r, outcome)
       \/ PostAnswer(r)

SpecConc == InitRerun /\ [][NextConc]_vars


\* ------------------------------------------------- history read: its inputs
\* Values of the days query parameter
DaysQueries ==
  {None,
   Some(<<"0">>), Some(<<"1">>), Some(<<"2">>), Some(<<"3">>),
   Some(<<"9", "0">>), Some(<<"3", "6", "5">>), Some(<<"3", "6", "6">>),
   Some(<<"1", "0", "0", "0">>), Some(<<"-", "5">>), Some(<<"a", "b", "c">>),
   Some(<<"2", "d">>), Some(<<" ", "2">>), Some(<<"0", "x", "2">>), Some(<<>>)}

Requests ==
  {[method |-> "GET", days |-> q] : q \in DaysQueries}
    \cup {[method |-> "OPTIONS", days |-> None], [method |-> "POST", days |-> Some(<<"2">>)]}

\* The row a run on day d may have left
HistRow(d) ==
  [date |-> d, term_spread |-> (0 - d) * Ulp4, front_month_apy |-> 4 * One + d * Ulp4,
   back_month_apy |-> 4 * One, front_expiry |-> d + 1, back_expiry |-> d + 90,
   underlying_apy |-> 7 * One, markets_count |-> 2]

\* Tables of n daily rows, in three storage orders
RowsAscending(n) == [i \in 1..n |-> HistRow(i)]
RowsDescending(n) == [i \in 1..n |-> HistRow(n + 1 - i)]
RowsRotated(n) == [i \in 1..n |-> HistRow(((i + (n \div 2)) % n) + 1)]

HistSizes ==
  (0..SmallRows) \cup ((DefaultDays - 1)..(DefaultDays + 1))
    \cup ((MaxDays - 1)..(MaxDays + ExtraRows))

HistTables ==
  UNION {{RowsAscending(n), RowsDescending(n), RowsRotated(n)} : n \in HistSizes}

InitHist ==
  /\ clock = 0
  /\ table \in HistTables
  /\ JobInit
  /\ HistInit
  /\ DashInit

NextHist ==
  \/ \E req \in Requests : HistStart(req)
  \/ \E outcome \in HistOutcomes : HistSettle(outcome)

SpecHist == InitHist /\ [][NextHist]_vars

\* ------------------------------------------------------------------ claims
\* The candidates of a run as the specification defines them: positions of
\* the combined market list whose name qualifies and whose expiry is a date
\* strictly after the instant `now`.
CandidatePositions(resp, now) ==
  {i \in 1..Len(AllMarkets(resp)) :
     /\ IsSusde(AllMarkets(resp)[i])
     /\ ExpiryTruthy(Pool[AllMarkets(resp)[i].m].expiry)
     /\ ~DateIsNaN(Pool[AllMarkets(resp)[i].m].expiry)
     /\ DateOf(Pool[AllMarkets(resp)[i].m].expiry) > now}

ExpiryAt(resp, i) == DateOf(Pool[AllMarkets(resp)[i].m].expiry)
ImpliedAt(resp, i) == ImpliedApy(AllMarkets(resp)[i].m)

Earliest(resp, now) ==
  {i \in CandidatePositions(resp, now) :
     \A j \in CandidatePositions(resp, now) : ExpiryAt(resp, i) <= ExpiryAt(resp, j)}
Latest(resp, now) ==
  {i \in CandidatePositions(resp, now) :
     \A j \in CandidatePositions(resp, now) : ExpiryAt(resp, i) >= ExpiryAt(resp, j)}

\* The expiry filter saw one candidate set, whichever of its clock reads is taken
SteadyFilter(r) ==
  CandidatePositions(responses[r], filterNows[r][1])
    = CandidatePositions(responses[r], filterNows[r][2])

\* C1: whenever the job sends a row, its term_spread is (implied yield of the
\* latest-expiry candidate - implied yield of the earliest-expiry candidate)
\* x 100 rounded to 4 decimals, front and back being the extremes by expiry of
\* the qualifying, non-expired candidates.
C1_SpreadOfExtremes ==
  \A r \in RunIds :
    (pc[r] = "posting" /\ SteadyFilter(r)) =>
      \E f \in Earliest(responses[r], filterNows[r][1]) :
        \E b \in Latest(responses[r], filterNows[r][1]) :
          record[r].term_spread
            = ToFixed4(Mul(ImpliedAt(responses[r], b) - ImpliedAt(responses[r], f), Hundred))

\* the same, for runs none of whose candidates-by-name has an unparseable expiry
NoBadExpiry(r) ==
  \A i \in 1..Len(AllMarkets(responses[r])) :
    IsSusde(AllMarkets(responses[r])[i]) =>
      Pool[AllMarkets(responses[r])[i].m].expiry.kind # "bad"

SpreadOfExtremesWhenParseable ==
  \A r \in RunIds :
    (pc[r] = "posting" /\ SteadyFilter(r) /\ NoBadExpiry(r)) =>
      \E f \in Earliest(responses[r], filterNows[r][1]) :
        \E b \in Latest(responses[r], filterNows[r][1]) :
          record[r].term_spread
            = ToFixed4(Mul(ImpliedAt(responses[r], b) - ImpliedAt(responses[r], f), Hundred))


\* A step in which the table takes the row of run r
PutStep(r) == pc[r] = "posting" /\ Len(puts') = Len(puts) + 1

RowsOfDate(tbl, d) == SelectSeq(tbl, LAMBDA row : row.date = d)

\* C2: the table holds at most one row per calendar date.
C2_OneRowPerDate ==
  \A i, j \in 1..Len(table) : i # j => table[i].date # table[j].date

\* two runs wrote different rows for one date, and one row of that date is left
C2_Witness ==
  /\ Len(puts) = 2
  /\ puts[1].record.date = puts[2].record.date
  /\ puts[1].record # puts[2].record
  /\ Len(RowsOfDate(table, puts[2].record.date)) = 1

\* C3 as stated: a run that writes on the date of the previous write, from
\* market inputs identical to that run's, leaves the table as it was.
C3_SameInputsSameTable ==
  [][\A r \in RunIds :
       (/\ PutStep(r)
        /\ Len(puts) > 0
        /\ puts[Len(puts)].record.date = record[r].date
        /\ puts[Len(puts)].inputs = responses[r])
       => table' = table]_vars

\* C3, amended: a run that writes on the date of the previous write, from
\* identical market inputs and with the same candidates still unexpired,
\* leaves the table as it was, with exactly one row of that date, the row
\* computed from the inputs.
C3_SameSnapshotSameTable ==
  [][\A r \in RunIds :
       (/\ PutStep(r)
        /\ Len(puts) > 0
        /\ puts[Len(puts)].record.date = record[r].date
        /\ puts[Len(puts)].inputs = responses[r]
        /\ puts[Len(puts)].sorted = sorted[r])
       => /\ table' = table
          /\ RowsOfDate(table', record[r].date) = <<Record(sorted[r], TicksPerDay * record[r].date)>>]_vars

\* the job has written twice on one date from the same inputs and candidates
C3_Witness ==
  /\ Len(puts) = 2
  /\ puts[1].record.date = puts[2].record.date
  /\ puts[1].inputs = puts[2].inputs
  /\ puts[1].sorted = puts[2].sorted
  /\ RowsOfDate(table, puts[2].record.date) = <<puts[2].record>>

\* The write of a date that no later write of that date follows
LastWriteOf(k) ==
  \A n \in (k + 1)..Len(puts) : puts[n].record.date # puts[k].record.date

\* Every row of the series that carries the date of rec is rec
OnlyAs(series, rec) ==
  \A i \in 1..Len(series) : series[i].date = rec.date => series[i] = rec

Holds(series, rec) == \E i \in 1..Len(series) : series[i] = rec

\* C4: whatever a history read returns for a date is the row of the last
\* write of that date, every field of it, and the default read returns it.
C4_LastWriteWins ==
  \A k \in 1..Len(puts) :
    LastWriteOf(k) =>
      /\ \A q \in DaysQueries :
           ~SelectRejects(LimitedDays(q)) => OnlyAs(HistoryData(table, q), puts[k].record)
      /\ Holds(HistoryData(table, None), puts[k].record)

\* two writes of one date that differ in every rate, the second one read back
C4_Witness ==
  /\ Len(puts) = 2
  /\ puts[1].record.date = puts[2].record.date
  /\ puts[1].record.term_spread # puts[2].record.term_spread
  /\ puts[1].record.front_month_apy # puts[2].record.front_month_apy
  /\ puts[1].record.back_month_apy # puts[2].record.back_month_apy
  /\ Holds(HistoryData(table, None), puts[2].record)
  /\ ~Holds(HistoryData(table, None), puts[1].record)


\* ------------------------------------------------- claims: the history read
\* A read has been answered with the success envelope
Answered == histPc = "done" /\ histReq.method # "OPTIONS" /\ "success" \in histRes.keys

\* C5: every successful history read, whatever the day count and whatever
\* the order the rows are stored in, returns its rows in strictly ascending
\* date order.
C5_AscendingByDate ==
  Answered =>
    \A i \in 1..(Len(histRes.data) - 1) : histRes.data[i].date < histRes.data[i + 1].date

\* a read answered with several rows from a table stored latest-first
C5_Witness ==
  /\ Answered
  /\ Len(histRes.data) >= 2
  /\ table[1].date > table[2].date

\* C6: a read asking for more than 365 days is answered exactly as the read
\* of 365 days is, and never with more than 365 rows.
C6_ClampedTo365 ==
  (histPc = "done" /\ histReq.method # "OPTIONS" /\ Days(histReq.days) > MaxDays) =>
    /\ \E outcome \in HistOutcomes :
         /\ histRes = HistResponse(table, histReq.days, outcome)
         /\ histRes = HistResponse(table, Some(<<"3", "6", "5">>), outcome)
    /\ Len(histRes.data) <= MaxDays

\* 1000 days asked of a table of more than 365 rows: 365 rows answered
C6_Witness ==
  /\ Answered
  /\ histReq.days = Some(<<"1", "0", "0", "0">>)
  /\ Len(table) > MaxDays
  /\ histRes.count = MaxDays

\* C7: a read with days = 0 that the table answers returns the empty series.
C7_ZeroDaysEmpty ==
  (Answered /\ histReq.days = Some(<<"0">>)) =>
    histRes.data = <<>> /\ histRes.count = 0

\* The rows of the table a series leaves out
LeftOut(tbl, series) == {i \in 1..Len(tbl) : ~Holds(series, tbl[i])}

MostRecent(tbl, series) ==
  /\ \A i \in 1..Len(series) : Holds(tbl, series[i])
  /\ \A o \in LeftOut(tbl, series) : \A i \in 1..Len(series) : tbl[o].date < series[i].date

\* C8: a read with a numeric day count N returns at most N rows, and no row
\* it leaves out is later than a row it returns.
C8_AtMostNMostRecent ==
  (Answered /\ ~ParseInt(histReq.days).nan) =>
    /\ Len(histRes.data) <= ParseInt(histReq.days).val
    /\ MostRecent(table, histRes.data)

\* the same, for day counts other than 0
AtMostNMostRecentWhenPositive ==
  (Answered /\ ~ParseInt(histReq.days).nan /\ ParseInt(histReq.days).val # 0) =>
    /\ Len(histRes.data) <= ParseInt(histReq.days).val
    /\ MostRecent(table, histRes.data)

\* ---------------------------------------------- claims: too few candidates
Informational(res) ==
  /\ res.status = 200
  /\ "message" \in res.keys
  /\ res.keys \cap {"success", "error"} = {}

\* The step in which run r leaves the fetch stage with fewer than 2
\* candidates at the instant its expiry filter starts
FewCandidatesStep(r) ==
  /\ pc[r] = "fetching"
  /\ pc'[r] # "fetching"
  /\ Cardinality(CandidatePositions(responses[r], clock)) < 2

\* C9: a run left with fewer than 2 qualifying, non-expired candidates ends
\* at once with the informational response, neither the success nor the
\* error envelope, and the table is not written.
C9_FewCandidatesInformational ==
  [][\A r \in RunIds :
       FewCandidatesStep(r) =>
         /\ pc'[r] = "done"
         /\ Informational(result'[r])
         /\ table' = table
         /\ puts' = puts]_vars

\* the same, for runs every chain of which delivered a list or nothing
FewCandidatesInformationalWhenLists ==
  [][\A r \in RunIds :
       (FewCandidatesStep(r) /\ ~FlatMapThrows(responses[r])) =>
         /\ pc'[r] = "done"
         /\ Informational(result'[r])
         /\ table' = table
         /\ puts' = puts]_vars

\* ---------------------------------------------------- dashboard: its inputs
DashIds == {1, 2, 4, 5, 6, 10, 11, 12}

DashBodies ==
  {Body("neterr", NoMember, NoMember), Body("httperr", NoMember, NoMember),
   Body("badjson", NoMember, NoMember), Body("json", NoMember, NoMember),
   Body("json", ObjMember, NoMember),
   Body("json", ArrMember(<<>>), ArrMember(<<1, 2>>))}
    \cup {Body("json", ArrMember(l), NoMember) : l \in SeqUpTo(DashIds, MaxLenDash)}
    \cup {Body("json", NoMember, ArrMember(l)) : l \in SeqUpTo(DashIds, MaxLenDash)}

InitDash ==
  /\ clock = 0
  /\ table = <<>>
  /\ JobInit
  /\ HistInit
  /\ DashInit

NextDash ==
  \/ Tick
  \/ DashStart
  \/ \E body \in DashBodies : \E k \in 0..MaxLenDash : DashSettle(body, k)

SpecDash == InitDash /\ [][NextDash]_vars

\* --------------------------------------------- claims: a single candidate
\* The candidates of a refresh as the specification defines them: positions
\* of the received list whose name or asset symbol contains the asset's name
\* and whose expiry is a date strictly after the instant `now`.
DashCandidates(body, now) ==
  {i \in 1..Len(DashAllMarkets(body).list) :
     /\ MatchesSusde(DashItems(DashAllMarkets(body).list)[i])
     /\ ExpiryTruthy(Pool[DashAllMarkets(body).list[i]].expiry)
     /\ ~DateIsNaN(Pool[DashAllMarkets(body).list[i]].expiry)
     /\ DateOf(Pool[DashAllMarkets(body).list[i]].expiry) > now}

\* A refresh has settled with exactly one candidate, at each of its clock reads
SingleCandidate ==
  /\ dashPc = "idle"
  /\ dashResp.kind = "json"
  /\ DashAllMarkets(dashResp).tag = "array"
  /\ Cardinality(DashCandidates(dashResp, dashNows[1])) = 1
  /\ Cardinality(DashCandidates(dashResp, dashNows[2])) = 1

TheCandidate == CHOOSE i \in DashCandidates(dashResp, dashNows[1]) : TRUE

\* C10: a computation left with exactly 1 candidate after the expiry filter
\* yields a term structure of one point and a term spread of 0, and no error.
C10_SingleCandidateZeroSpread ==
  SingleCandidate =>
    /\ Len(termStructure) = 1
    /\ termStructure[1].m = DashAllMarkets(dashResp).list[TheCandidate]
    /\ termSpread = 0
    /\ error = NoError

\* the same, for a candidate whose implied rate resolves to a positive number
SingleCandidateZeroSpreadWhenPositive ==
  (SingleCandidate /\ ImpliedApy(DashAllMarkets(dashResp).list[TheCandidate]) > 0) =>
    /\ Len(termStructure) = 1
    /\ termStructure[1].m = DashAllMarkets(dashResp).list[TheCandidate]
    /\ termSpread = 0
    /\ error = NoError

\* --------------------------------------- the job and the dashboard together
MaxRefreshesBoth == 1

\* The dashboard's inputs next to the job's: the markets of the re-run
\* specification, under the key the API uses
DashBodiesBoth ==
  {Body("neterr", NoMember, NoMember)}
    \cup {Body("json", ArrMember(l), NoMember) : l \in SeqUpTo({1, 2, 4}, MaxLenDash)}

NextBoth ==
  \/ Tick
  \/ \E r \in {1} :
       \/ Start(r, MaxRuns)
       \/ \E c \in ChainIx : \E body \in BodiesRerun(c) : FetchSettle(r, c, body)
       \/ \E k \in 0..(MaxLen + MaxLen2) : Compute(r, k)
       \/ Prepare(r)
       \/ \E outcome \in PostOutcomes : PostSettle(r, outcome)
  \/ (refreshes < MaxRefreshesBoth /\ DashStart)
  \/ \E body \in DashBodiesBoth : \E k \in 0..MaxLenDash : DashSettle(body, k)

SpecBoth == InitDash /\ [][NextBoth]_vars

\* ------------------------------------------------ claims: expired candidates
\* Run r has passed its expiry filter
Filtered(r) ==
  \/ pc[r] \in {"computed", "posting"}
  \/ pc[r] = "done" /\ result[r].message = "Not enough valid sUSDe markets"

\* The item is one of the candidates of the combined list at the instant now
IsCandidate(resp, it, now) ==
  \E i \in CandidatePositions(resp, now) : AllMarkets(resp)[i] = it

\* The job's part: the front, the back and every counted market are
\* candidates not expired when the filter started, and fewer than 2 of them
\* end the run without a row.
JobDropsExpired(r) ==
  /\ \A i \in 1..Len(sorted[r]) :
       IsCandidate(responses[r], sorted[r][i], filterNows[r][1])
  /\ pc[r] = "posting" =>
       /\ record[r].markets_count = Len(sorted[r])
       /\ record[r].markets_count
            <= Cardinality(CandidatePositions(responses[r], filterNows[r][1]))
  /\ (Filtered(r) /\ Cardinality(CandidatePositions(responses[r], filterNows[r][1])) < 2) =>
       /\ pc[r] = "done"
       /\ "success" \notin result[r].keys
       /\ record[r] = NoRecord

\* A refresh has settled and its processMarkets has set the term structure
StructureSet ==
  /\ dashPc = "idle"
  /\ dashResp.kind = "json"
  /\ DashSorted(DashProcessed(dashResp)) # <<>>
  /\ error # "No valid markets with positive days to expiry"

\* The dashboard's part: every point is a market not expired when the
\* refresh read the clock, and a single point has spread 0.
DashDropsExpired ==
  StructureSet =>
    /\ \A i \in 1..Len(termStructure) :
         /\ ~DateIsNaN(Pool[termStructure[i].m].expiry)
         /\ DateOf(Pool[termStructure[i].m].expiry) > dashNows[1]
    /\ Len(termStructure) = 1 => termSpread = 0

\* C11: a candidate whose expiry is not strictly after the computation clock
\* is never front or back and is not counted in markets_count, in the job
\* and in the dashboard; when fewer than 2 candidates are left the run ends
\* without a spread (the job) or with spread 0 for the single point (the
\* dashboard), never with a spread computed from an expired market.
C11_ExpiredExcluded ==
  /\ \A r \in RunIds : JobDropsExpired(r)
  /\ DashDropsExpired

\* the job sends a row of 2 markets, and the dashboard shows one point of 2
\* received, both after the market expiring at T1 has expired
C11_Witness ==
  /\ pc[1] = "posting"
  /\ filterNows[1][1] >= 1
  /\ \E i \in 1..Len(AllMarkets(responses[1])) : AllMarkets(responses[1])[i].m = 4
  /\ record[1].markets_count = 2
  /\ StructureSet
  /\ dashNows[1] >= 1
  /\ Len(DashAllMarkets(dashResp).list) = 2
  /\ \E i \in 1..2 : DashAllMarkets(dashResp).list[i] = 4
  /\ Len(termStructure) = 1

\* ------------------------------------------------- claims: underlying yield
UnderlyingAt(resp, i) == UnderlyingApy(AllMarkets(resp)[i].m)

\* C12: the underlying_apy of every row the job sends is the underlying
\* yield, in percent, of the earliest-expiry candidate not expired.
C12_UnderlyingFromFront ==
  \A r \in RunIds :
    (pc[r] = "posting" /\ SteadyFilter(r)) =>
      \E f \in Earliest(responses[r], filterNows[r][1]) :
        record[r].underlying_apy = ToFixed4(Mul(UnderlyingAt(responses[r], f), Hundred))

\* the same, for runs none of whose candidates-by-name has an unparseable expiry
UnderlyingFromFrontWhenParseable ==
  \A r \in RunIds :
    (pc[r] = "posting" /\ SteadyFilter(r) /\ NoBadExpiry(r)) =>
      \E f \in Earliest(responses[r], filterNows[r][1]) :
        record[r].underlying_apy = ToFixed4(Mul(UnderlyingAt(responses[r], f), Hundred))

\* ---------------------------------------------- claims: a failed chain fetch
\* Some chain's fetch of run r failed
FailedSome(r) == \E c \in ChainIx : responses[r][c].error

\* The combined market list of the chains whose fetch succeeded, alone
MarketsOfOk(resp) ==
  Concat([c \in ChainIx |-> IF resp[c].error THEN <<>> ELSE Tagged(resp, c)], Len(Chains))

\* Some chain whose fetch succeeded delivered something that is not a list
OkThrows(resp) == \E c \in ChainIx : ~resp[c].error /\ resp[c].markets.tag # "array"

\* What the expiry filter keeps of the successful chains' markets
SortedOfOk(r) ==
  Sorted(SusdeMarkets(MarketsOfOk(responses[r])),
         [i \in 1..Len(MarketsOfOk(responses[r])) |-> filterNows[r][1]])

\* The run has ended the way a run over the successful chains alone ends
DoneAsIfOkOnly(r) ==
  IF OkThrows(responses[r])
    THEN result[r] = ServerError("TypeError")
  ELSE IF Len(SusdeMarkets(MarketsOfOk(responses[r]))) < 2
    THEN result[r] = NotEnoughMarkets(Len(SusdeMarkets(MarketsOfOk(responses[r]))))
  ELSE IF Len(SortedOfOk(r)) < 2
    THEN result[r] = NotEnoughValid(Len(SortedOfOk(r)))
  ELSE IF RecordThrows(SortedOfOk(r))
    THEN result[r] = ServerError("TypeError")
  ELSE /\ record[r] = Record(SortedOfOk(r), TicksPerDay * record[r].date)
       /\ result[r] \in {Success(record[r], Len(SortedOfOk(r))),
                         ServerError("Supabase error"), ServerError("fetch failed")}

\* C13: when the fetch of a chain fails, the run counts, filters, computes,
\* sends and answers exactly as a run over the markets of the other chains
\* alone does; the failed chain contributes no market.
C13_FailedChainContributesNothing ==
  \A r \in RunIds :
    (FailedSome(r) /\ SteadyFilter(r)) =>
      /\ pc[r] \in {"computed", "posting"} => sorted[r] = SortedOfOk(r)
      /\ pc[r] = "posting" => record[r] = Record(SortedOfOk(r), TicksPerDay * record[r].date)
      /\ pc[r] = "done" => DoneAsIfOkOnly(r)

\* Plasma's fetch failed and the run stored a row made of Ethereum's 2 markets
C13_Witness ==
  /\ pc[1] = "done"
  /\ responses[1][2].error
  /\ ~responses[1][1].error
  /\ Len(responses[1][1].markets.list) = 2
  /\ "success" \in result[1].keys
  /\ result[1].markets = 2
  /\ Len(puts) = 1

\* ------------------------------------------------------ claims: the join
\* The chains' markets in the order of CHAINS, whichever fetch settled first
InChainOrder(resp) == Tagged(resp, 1) \o Tagged(resp, 2)

\* C14: while a chain's fetch is outstanding the run has filtered nothing,
\* computed nothing, sent nothing and answered nothing; no row the table
\* took was made from a pending fetch; and what the run computes is the
\* function of the chains' answers taken in the order of CHAINS.
C14_JoinWaitsForAll ==
  /\ \A r \in RunIds :
       /\ (\E c \in ChainIx : responses[r][c] = Pending) =>
            /\ pc[r] \in {"idle", "fetching"}
            /\ sorted[r] = <<>>
            /\ record[r] = NoRecord
            /\ result[r] = NoResult
       /\ (pc[r] \in {"computed", "posting"} /\ SteadyFilter(r)) =>
            sorted[r] = Sorted(SusdeMarkets(InChainOrder(responses[r])),
                               [i \in 1..Len(InChainOrder(responses[r])) |-> filterNows[r][1]])
  /\ \A k \in 1..Len(puts) : \A c \in ChainIx : puts[k].inputs[c] # Pending

\* Plasma's fetch has settled before Ethereum's, and the run is waiting
C14_Witness ==
  /\ pc[1] = "fetching"
  /\ responses[1][1] = Pending
  /\ responses[1][2] # Pending
  /\ ~responses[1][2].error
  /\ result[1] = NoResult

\* ------------------------------------------------ claims: a rejected write
\* The table made of the first n rows it took, an empty table to begin with
RECURSIVE Replay(_, _)
Replay(ps, n) == IF n = 0 THEN <<>> ELSE Upsert(Replay(ps, n - 1), ps[n].record)

\* Run r has ended on the table's rejection of its row
Rejected(r) == pc[r] = "done" /\ result[r].error = "Supabase error"

StoreFailed ==
  \/ histOutcome \in {"rejected", "unsent", "badjson"}
  \/ histOutcome = "ok" /\ SelectRejects(LimitedDays(histReq.days))

\* C16: a history read on which the table fails is answered with status 500
\* and the failure's message, and a success envelope is only ever given
\* with the complete series the read asked for.
C16_ReadFailureIs500 ==
  (histPc = "done" /\ histReq.method # "OPTIONS") =>
    /\ StoreFailed =>
         /\ histRes.status = 500
         /\ histRes.keys = {"error"}
         /\ histRes.error \in {"Supabase error", "fetch failed", "SyntaxError"}
         /\ histRes.data = <<>>
    /\ "success" \in histRes.keys =>
         /\ ~StoreFailed
         /\ histRes.data = HistoryData(table, histReq.days)

\* the table answered the select of a non-empty table with an error status
C16_Witness ==
  /\ histPc = "done"
  /\ histReq.method = "GET"
  /\ histOutcome = "rejected"
  /\ Len(table) >= 2
  /\ histRes.status = 500
  /\ histRes.error = "Supabase error"

\* ------------------------------------------------ claims: the matching rule
\* The rule of the specification: the display name (name, else proName) or
\* the underlying asset's symbol contains the asset's name, letter case aside
Qualifies(it) ==
  \/ Includes(ToLowerCase(IF IsSome(Pool[it.m].name) /\ Pool[it.m].name[1] # <<>>
                            THEN Pool[it.m].name[1]
                            ELSE IF IsSome(Pool[it.m].proName) THEN Pool[it.m].proName[1]
                            ELSE <<>>),
              <<"s", "u", "s", "d", "e">>)
  \/ /\ IsSome(Pool[it.m].symbol)
     /\ Includes(ToLowerCase(Pool[it.m].symbol[1]), <<"s", "u", "s", "d", "e">>)

\* C17: the markets the job counts as sUSDe markets are exactly the markets
\* that qualify under the rule.
C17_JobMatchesBySubstring ==
  \A r \in RunIds :
    (pc[r] = "done" /\ "marketsFound" \in result[r].keys) =>
      result[r].count = Len(SelectSeq(AllMarkets(responses[r]), Qualifies))

\* the dashboard's first pass: it reports that no sUSDe market was found
\* exactly when no received market qualifies under the rule
DashMatchesBySubstring ==
  (dashPc = "idle" /\ dashResp.kind = "json" /\ ~NoMarketsData(DashAllMarkets(dashResp))) =>
    IF \E i \in 1..Len(DashAllMarkets(dashResp).list) :
         Qualifies([m |-> DashAllMarkets(dashResp).list[i]])
      THEN error # "No sUSDe markets found"
      ELSE error \in {"No sUSDe markets found",
                      "No valid markets with positive days to expiry"}

\* --------------------------------------------------- claims: malformed input
\* C18: whatever the chains deliver, a run never answers with the error
\* envelope because of it: status 500 is only ever the table's failure.
C18_MalformedInputNever500 ==
  \A r \in RunIds :
    (pc[r] = "done" /\ result[r].status = 500) =>
      result[r].error \in {"Supabase error", "fetch failed"}

\* No market with the job's name carries an expiry that is not a string
NoNumericExpiry(r) ==
  \A i \in 1..Len(AllMarkets(responses[r])) :
    IsSusde(AllMarkets(responses[r])[i]) =>
      Pool[AllMarkets(responses[r])[i].m].expiry.kind # "num"

\* the same, for runs whose chains delivered lists or nothing and whose
\* expiries are strings or missing
MalformedInputNever500WhenTyped ==
  \A r \in RunIds :
    (/\ pc[r] = "done"
     /\ result[r].status = 500
     /\ ~FlatMapThrows(responses[r])
     /\ NoNumericExpiry(r)) =>
      result[r].error \in {"Supabase error", "fetch failed"}

\* the same, for lists only: violated by a numeric expiry at the front
ListsNever500 ==
  \A r \in RunIds :
    (pc[r] = "done" /\ result[r].status = 500 /\ ~FlatMapThrows(responses[r])) =>
      result[r].error \in {"Supabase error", "fetch failed"}

\* ---------------------------------------------- claims: yield field precedence
\* The precedence of the specification: the nested field when it is there,
\* whatever its value; else the top-level field; else 0
Resolve(nested, top) ==
  IF IsSome(nested) THEN nested[1] ELSE IF IsSome(top) THEN top[1] ELSE 0

ResolvedImplied(m) == Resolve(Pool[m].dImpliedApy, Pool[m].impliedApy)
ResolvedUnderlying(m) == Resolve(Pool[m].dUnderlyingApy, Pool[m].underlyingApy)

\* C19: the rates of the row the job sends are resolved, for its front and
\* its back market, by that precedence.
C19_NestedFieldFirst ==
  \A r \in RunIds :
    pc[r] = "posting" =>
      /\ record[r].front_month_apy
           = ToFixed4(Mul(ResolvedImplied(sorted[r][1].m), Hundred))
      /\ record[r].back_month_apy
           = ToFixed4(Mul(ResolvedImplied(sorted[r][Len(sorted[r])].m), Hundred))
      /\ record[r].underlying_apy
           = ToFixed4(Mul(ResolvedUnderlying(sorted[r][1].m), Hundred))

\* The market's nested rates, where present, are not 0
NoNestedZero(m) == Pool[m].dImpliedApy # Some(0) /\ Pool[m].dUnderlyingApy # Some(0)

\* the same, for front and back markets whose nested rates are not 0
NestedFieldFirstWhenNonZero ==
  \A r \in RunIds :
    (/\ pc[r] = "posting"
     /\ NoNestedZero(sorted[r][1].m)
     /\ NoNestedZero(sorted[r][Len(sorted[r])].m)) =>
      /\ record[r].front_month_apy
           = ToFixed4(Mul(ResolvedImplied(sorted[r][1].m), Hundred))
      /\ record[r].back_month_apy
           = ToFixed4(Mul(ResolvedImplied(sorted[r][Len(sorted[r])].m), Hundred))
      /\ record[r].underlying_apy
           = ToFixed4(Mul(ResolvedUnderlying(sorted[r][1].m), Hundred))

\* ------------------------------------------------ claims: percent conversion
\* 100 times a fractional rate, to 4 decimals
Percent4(rate) == ToFixed4(100 * rate)

\* C20: the rates of the row are 100 times the fractional rates of its front
\* and back market, to 4 decimals, and the success envelope repeats the
\* row's front, back and spread values as they are.
C20_PercentOnce ==
  \A r \in RunIds :
    /\ pc[r] = "posting" =>
         /\ record[r].front_month_apy = Percent4(ImpliedApy(sorted[r][1].m))
         /\ record[r].back_month_apy = Percent4(ImpliedApy(sorted[r][Len(sorted[r])].m))
         /\ record[r].underlying_apy = Percent4(UnderlyingApy(sorted[r][1].m))
    /\ (pc[r] = "done" /\ "success" \in result[r].keys) =>
         /\ result[r].front_apy = record[r].front_month_apy
         /\ result[r].back_apy = record[r].back_month_apy
         /\ result[r].term_spread = record[r].term_spread
         /\ result[r].front_apy = Percent4(ImpliedApy(sorted[r][1].m))
         /\ result[r].back_apy = Percent4(ImpliedApy(sorted[r][Len(sorted[r])].m))

\* a run stored and answered 4.0000 for a front market whose rate is 0.04
C20_Witness ==
  /\ pc[1] = "done"
  /\ "success" \in result[1].keys
  /\ ImpliedApy(sorted[1][1].m) = 4 * (One \div 100)
  /\ record[1].front_month_apy = 4 * One
  /\ result[1].front_apy = 4 * One
  /\ result[1].back_apy # 0
  /\ Len(puts) = 1

\* ------------------------------------------ claims: success after the write
\* Run r answers with the success envelope in this step
AnswersSuccess(r) == result'[r] # result[r] /\ "success" \in result'[r].keys

\* Row row carries the values the envelope res returns
AsReturned(row, res) ==
  /\ row.date = res.date
  /\ row.term_spread = res.term_spread
  /\ row.front_month_apy = res.front_apy
  /\ row.back_month_apy = res.back_apy
  /\ row.markets_count = res.markets

HoldsReturned(tbl, res) == \E i \in 1..Len(tbl) : AsReturned(tbl[i], res)

\* C21 as stated: whenever a run answers success = true, the table holds at
\* that moment, for the returned date, a row whose term_spread,
\* front_month_apy, back_month_apy and markets_count are the returned
\* term_spread, front_apy, back_apy and markets.
C21_SuccessMeansStored ==
  [][\A r \in RunIds : AnswersSuccess(r) => HoldsReturned(table', result'[r])]_vars

\* C21 as the code has it: whenever a run answers success = true, the table
\* has taken that run's row with the returned values before the answer, and
\* holds it at the answer unless it has since taken another write for the
\* same date.
C21_SuccessMeansTaken ==
  [][\A r \in RunIds :
       AnswersSuccess(r) =>
         \E k \in 1..Len(puts') :
           /\ puts'[k].record = record'[r]
           /\ AsReturned(puts'[k].record, result'[r])
           /\ (\A j \in (k + 1)..Len(puts') : puts'[j].record.date # result'[r].date)
                => HoldsReturned(table', result'[r])]_vars

\* both runs have stored a row and one of them has answered success while
\* the table holds what it returned
C21_Witness ==
  /\ Len(puts) = 2
  /\ \E r \in RunIds :
       /\ pc[r] = "done"
       /\ "success" \in result[r].keys
       /\ HoldsReturned(table, result[r])

\* ------------------------------------------- claims: the default day count
\* C22: a successful history read returns success = true and count equal to
\* the number of records in data, and, when the days parameter is absent or
\* is a string parseInt reads no number from, the series holds the 90 most
\* recent records (all of them when the table has fewer).
C22_DefaultNinety ==
  Answered =>
    /\ histRes.status = 200
    /\ histRes.keys = {"success", "count", "data"}
    /\ histRes.count = Len(histRes.data)
    /\ ParseInt(histReq.days).nan =>
         /\ Len(histRes.data) = Min(90, Len(table))
         /\ MostRecent(table, histRes.data)

\* a read without a usable days parameter, of a table of more than 90 rows,
\* answered with 90 of them
C22_Witness ==
  /\ Answered
  /\ ParseInt(histReq.days).nan
  /\ Len(table) > 90
  /\ histRes.count = 90

\* ----------------------------------------- claims: a deterministic computation
\* Run r has its filtered candidate list
PastFilter(r) == pc[r] \in {"computed", "posting", "done"} \cup PostOutcomes

\* Runs a and b were given the same market list and began their computation
\* at the same instant
SameListSameAsOf(a, b) ==
  /\ PastFilter(a) /\ PastFilter(b)
  /\ AllMarkets(responses[a]) = AllMarkets(responses[b])
  /\ filterNows[a][1] = filterNows[b][1]

\* What the two runs made of it is the same: the structure, the snapshot
\* where both have built it, the reason where both have given one
SameOutcome(a, b) ==
  /\ sorted[a] = sorted[b]
  /\ (record[a] # NoRecord /\ record[b] # NoRecord) => record[a] = record[b]
  /\ (result[a].message # "" /\ result[b].message # "") =>
       /\ result[a].message = result[b].message
       /\ result[a].count = result[b].count

\* C23: two runs given the same market list and the same asOf produce the
\* same structure, the same snapshot (date, front_expiry, back_expiry and
\* markets_count included) and the same reason.
C23_SameListSameAsOfSameOutcome ==
  \A a, b \in RunIds : SameListSameAsOf(a, b) => SameOutcome(a, b)

\* the same, for runs during whose expiry filter the clock stood still: the
\* structure and the reason then agree
SameStructureWhenClockStands ==
  \A a, b \in RunIds :
    (SameListSameAsOf(a, b) /\ filterNows[a][2] = filterNows[a][1]
       /\ filterNows[b][2] = filterNows[b][1]) =>
      /\ sorted[a] = sorted[b]
      /\ (result[a].message # "" /\ result[b].message # "") =>
           /\ result[a].message = result[b].message
           /\ result[a].count = result[b].count

\* -------------------------------------------- claims: runs that overlap
\* The writes the table has taken for date d, and the dates written
WritesOf(d) == {k \in 1..Len(puts) : puts[k].record.date = d}
WrittenDates == {puts[k].record.date : k \in 1..Len(puts)}

\* C24: with the table's upsert atomic on the row, however two runs of the
\* job interleave, a date they have written has exactly one row, and that
\* row is, field for field, the record one of the runs computed.
C24_OverlappingRunsOneWholeRow ==
  \A d \in WrittenDates :
    /\ Len(RowsOfDate(table, d)) = 1
    /\ \A i \in {j \in 1..Len(table) : table[j].date = d} :
         \E k \in WritesOf(d) : table[i] = puts[k].record
                                  /\ \E r \in RunIds : record[r] = puts[k].record

\* both runs' POSTs have reached the table for the same date with different
\* records, and neither run has gone on yet
C24_Witness ==
  /\ pc = <<"ok", "ok">>
  /\ Len(puts) = 2
  /\ record[1].date = record[2].date
  /\ record[1].term_spread # record[2].term_spread
  /\ record[1].front_month_apy # record[2].front_month_apy
  /\ Len(table) = 1

\* ------------------------------------------------ claims: ties in the expiry
\* The candidates' positions in the combined list (chain order, then the
\* upstream's list order), ascending by expiry, equal expiries in input order
StableOrder(resp, now) ==
  LET n == Len(AllMarkets(resp))
      cands == SelectSeq([i \in 1..n |-> i],
                         LAMBDA i : i \in CandidatePositions(resp, now))
  IN  SortSeq(cands, LAMBDA i, j : \/ ExpiryAt(resp, i) < ExpiryAt(resp, j)
                                   \/ ExpiryAt(resp, i) = ExpiryAt(resp, j) /\ i < j)

InStableOrder(r) ==
  \E ord \in {StableOrder(responses[r], filterNows[r][1])} :
    sorted[r] = [i \in 1..Len(ord) |-> AllMarkets(responses[r])[ord[i]]]

\* C25: the candidate list the job works on is ascending by expiry, and
\* candidates of identical expiry stand in it in their input order; hence
\* the front is the first in the input of the earliest candidates and the
\* back the last in the input of the latest ones.
C25_StableTieBreak ==
  \A r \in RunIds :
    (pc[r] \in {"computed", "posting"} /\ SteadyFilter(r)) => InStableOrder(r)

\* the same, for runs none of whose candidates-by-name has an unparseable expiry
StableTieBreakWhenParseable ==
  \A r \in RunIds :
    (pc[r] \in {"computed", "posting"} /\ SteadyFilter(r) /\ NoBadExpiry(r)) =>
      InStableOrder(r)

\* a run whose two earliest candidates tie, the later-listed one being the
\* other market
TiedFront ==
  /\ pc[1] = "computed"
  /\ Len(sorted[1]) = 3
  /\ sorted[1][1].m = 9 /\ sorted[1][2].m = 1

\* ------------------------------------------- claims: the key of the list
\* Chain c of run r delivered a market list
Delivered(r, c) ==
  /\ responses[r][c] # Pending
  /\ ~responses[r][c].error
  /\ responses[r][c].markets.tag = "array"

\* C26, the job: the list a chain delivered under 'markets' would, carried
\* under 'results' instead, give the job the same markets of that chain.
C26_EitherKey ==
  \A r \in RunIds : \A c \in ChainIx :
    Delivered(r, c) =>
      ChainResponse(c, Body("json", NoMember, responses[r][c].markets))
        = ChainResponse(c, Body("json", responses[r][c].markets, NoMember))

\* C26, the dashboard: a list received under 'results' alone is processed as
\* the same list received under 'markets' is.
DashEitherKey ==
  (dashResp.kind = "json" /\ dashResp.markets.tag = "absent") =>
    /\ DashAllMarkets(dashResp) = DashAllMarkets(Body("json", dashResp.results, NoMember))
    /\ DashProcessed(dashResp) = DashProcessed(Body("json", dashResp.results, NoMember))

\* the dashboard has shown a structure made from a list under 'results'
DashFromResults ==
  /\ dashResp.kind = "json"
  /\ dashResp.markets.tag = "absent"
  /\ dashResp.results.tag = "array"
  /\ Len(termStructure) >= 2

\* --------------------------------------------- claims: the limit sent
\* The select of the current read is on its way or has come back
SelectSent == histPc \in {"fetching", "done"} /\ histReq.method # "OPTIONS"

\* C27: whatever the days parameter, the limit the history read sends to the
\* table is an integer from 1 to 365.
C27_LimitInRange ==
  SelectSent => LimitedDays(histReq.days) \in 1..365

\* the same, for parameters parseInt does not read as a negative number
LimitInRangeWhenNotNegative ==
  (SelectSent /\ ParseInt(histReq.days).val >= 0) => LimitedDays(histReq.days) \in 1..365

\* --------------------------------------------- claims: the persisted record
WellFormedRecord(rec) ==
  /\ rec.date <= rec.front_expiry
  /\ rec.front_expiry <= rec.back_expiry
  /\ rec.markets_count >= 2

\* C28: every record the job has persisted has date <= front_expiry <=
\* back_expiry (as days) and markets_count >= 2, whatever the clock did
\* between the expiry filter and the reading of the record's date.
C28_PersistedRecordWellFormed ==
  \A k \in 1..Len(puts) : WellFormedRecord(puts[k].record)

\* the same, for runs whose qualifying markets all have a parseable expiry
\* and whose record is dated with the day their expiry filter began on
WellFormedWhenSameDay ==
  \A r \in RunIds :
    (pc[r] = "posting" /\ NoBadExpiry(r)
       /\ record[r].date = DayOf(filterNows[r][1])) => WellFormedRecord(record[r])

\* and for runs whose qualifying markets all have a parseable expiry, the
\* clock doing what it will
WellFormedWhenParseable ==
  \A r \in RunIds :
    (pc[r] = "posting" /\ NoBadExpiry(r)) => WellFormedRecord(record[r])

\* ------------------------------------- claims: the dashboard and the job
\* The job and the dashboard side by side on lists that hold a market named
\* 'PT-sUSDe' and a market without an implied rate
AgreeIds == {1, 2, 6, 11}

BodiesAgree(c) ==
  IF c = 1
    THEN {Body("neterr", NoMember, NoMember)}
           \cup {Body("json", ArrMember(l), NoMember) : l \in SeqUpTo(AgreeIds, MaxLenDash)}
    ELSE {Body("neterr", NoMember, NoMember), Body("json", ArrMember(<<>>), NoMember)}

DashBodiesAgree ==
  {Body("neterr", NoMember, NoMember)}
    \cup {Body("json", ArrMember(l), NoMember) : l \in SeqUpTo(AgreeIds, MaxLenDash)}

NextAgree ==
  \/ Tick
  \/ \E r \in {1} :
       \/ Start(r, MaxRuns)
       \/ \E c \in ChainIx : \E body \in BodiesAgree(c) : FetchSettle(r, c, body)
       \/ \E k \in 0..(MaxLen + MaxLen2) : Compute(r, k)
       \/ Prepare(r)
       \/ \E outcome \in PostOutcomes : PostSettle(r, outcome)
  \/ (refreshes < MaxRefreshesBoth /\ DashStart)
  \/ \E body \in DashBodiesAgree : \E k \in 0..MaxLenDash : DashSettle(body, k)

SpecAgree == InitDash /\ [][NextAgree]_vars

\* The job's run and the dashboard's refresh were given the same list of
\* chain 1 (the job nothing else) and read the same clock, which stood still
SameListSameClock ==
  /\ pc[1] \in {"computed", "posting", "done"}
  /\ dashPc = "idle" /\ refreshes = 1 /\ dashResp.kind = "json"
  /\ dashResp.markets.tag = "array"
  /\ responses[1][1].markets = dashResp.markets
  /\ responses[1][2].markets.list = <<>>
  /\ filterNows[1][2] = filterNows[1][1]
  /\ dashNows[2] = dashNows[1]
  /\ dashNows[1] = filterNows[1][1]

\* The job has chosen a front and a back; the dashboard shows a term spread
JobPair == Len(sorted[1]) >= 2
DashPair == Len(termStructure) >= 2

\* The two agree on the front, the back and the spread
SamePair ==
  /\ JobPair /\ termStructure # <<>>
  /\ termStructure[1].m = sorted[1][1].m
  /\ termStructure[Len(termStructure)].m = sorted[1][Len(sorted[1])].m
  /\ termSpread = ToFixed2(ToFixed4(TermSpread(sorted[1])))

\* C29: for the same list of chain 1 and the same clock, the front and the
\* back market of the dashboard are those of the job and the dashboard's term
\* spread is the job's term_spread rounded to 2 decimals, also when a market
\* has a zero implied yield or a name that merely contains 'susde'.
C29_DashboardAgreesWithJob ==
  (SameListSameClock /\ (JobPair \/ DashPair)) => SamePair

\* the same, for lists of markets named exactly 'sUSDe' (in any case) with a
\* positive implied yield
PlainList ==
  \A i \in 1..Len(dashResp.markets.list) :
    /\ IsSusde([chainId |-> CHAIN_ID, m |-> dashResp.markets.list[i]])
    /\ ImpliedApy(dashResp.markets.list[i]) > 0

AgreesOnPlainLists ==
  (SameListSameClock /\ PlainList /\ (JobPair \/ DashPair)) => SamePair

\* the two have agreed on a pair of different markets
AgreedOnPair ==
  /\ SameListSameClock /\ SamePair
  /\ sorted[1][1].m # sorted[1][2].m

\* ------------------------------------------ claims: refreshes that overlap
\* The dashboard whose interval fires whether or not the previous refresh
\* has come back (setInterval, line 164)
NextOverlap ==
  \/ Tick
  \/ FetchPendleMarkets(MaxRefreshesOver)
  \/ \E id \in 1..MaxRefreshesOver : \E body \in DashBodiesBoth :
       \E k \in 0..MaxLenDash : DashSettleOf(id, body, k)

SpecOverlap == InitDash /\ [][NextOverlap]_vars

\* What the page shows of a refresh
Shown == <<termStructure, termSpread, error, lastUpdate>>

\* In this step a refresh settles that a later-started refresh has overtaken
LateSettle ==
  \E id \in settled' \ settled : \E later \in settled : later > id

\* C30: once overlapping refreshes have all completed, the page shows the
\* state of the one started last (a refresh overtaken by a later one does
\* not change what is shown when it settles at last), and loading is true
\* whenever some refresh is in flight and false once none is.
C30_LastStartedWins ==
  /\ [][LateSettle => Shown' = Shown]_vars
  /\ [](InFlight # {} => loading)
  /\ []((refreshes > 0 /\ InFlight = {}) => ~loading)

\* the two parts apart; the second holds of a dashboard whose refreshes never
\* overlap
LastStartedShown == [][LateSettle => Shown' = Shown]_vars
LoadingWhileInFlight ==
  /\ InFlight # {} => loading
  /\ (refreshes > 0 /\ InFlight = {}) => ~loading


====
